---- MODULE Spec2Model ----
(***************************************************************************)
(* Model of the GovInfo bulk-ingestion client (src/govinfo_cli.py):        *)
(*   - fetch_published_packages : cursor paginator                         *)
(*   - download_with_retries    : retrying downloader                      *)
(*   - download_package_formats / handle_download_command : driver         *)
(*   - handle_download_command up to discovery : argument validation       *)
(*   - next_offset_from_nextpage : cursor extraction, called on its own    *)
(* Each has its own specification (SpecFetch, SpecDl, SpecRun, SpecCmd,    *)
(* SpecNextOffset); the variables of the parts a specification does not    *)
(* run stay at their idle values.                                          *)
(***************************************************************************)
EXTENDS Integers, Sequences, FiniteSets, TLC

VARIABLES
    \* ---- fetch_published_packages ----
    fpc,            \* position: "idle", "loop", "returned", "raised"
    max_packages,   \* Optional[int]: <<>> is None, <<n>> is the integer n
    offset_mark,    \* cursor of the next page request
    seen_offsets,   \* the history set of the cycle guard
    packages,       \* accumulated PackageRecords
    requested,      \* history: offsetMark of every page request, in order
    last_page,      \* history: outcome of the latest page request and the items it listed
    stopped_by,     \* history: the exit the loop was left by ("" while it runs)
    \* ---- download_with_retries ----
    dpc,            \* position: "idle", "loop", "streaming", "returned", "raised"
    max_retries,    \* the max_retries argument
    attempt,        \* the attempt counter
    stream,         \* chunks of the response body not yet delivered
    dest,           \* the destination file: [exists, content]
    fh_open,        \* the destination file handle is open
    result,         \* "none" while running, then "True" / "False" / the exception raised
    answers,        \* history: what every request of this call was answered with
    sleeps,         \* history: argument of every time.sleep of this call
    faults,         \* history: broken body streams and failed file operations of this call
    \* ---- handle_download_command / download_package_formats ----
    rpc,            \* position: "idle", "record", "formats", "downloading", "done", "aborted"
    fmt_list,       \* the requested formats, as handle_download_command passes them
    dry_run,        \* args.dry_run
    summaries,      \* the server's answer to the summary request of each record
    idx,            \* position of the for loop over packages
    fi,             \* position of the for loop over fmt_list
    download_info,  \* summary["download"] of the current record
    files,          \* the files under the output directory: set of [path, content]
    enriched,       \* history: records a summary request was issued for, in order
    dispatched,     \* history: (record, format) pairs handed to download_with_retries
    log,            \* history: log records of the driver
    reported,       \* history: the count of the closing "Done. Processed %d packages." (<<>>: none yet)
    \* ---- handle_download_command, from its call to the first page request ----
    cpc,            \* position: "idle", "start", "discovering", "exited"
    args,           \* the parsed command line and the environment
    exit_error,     \* the exception the command ended with ("" for none)
    output_dir_made, \* ensure_output_dir has created the output directory
    \* ---- next_offset_from_nextpage, called on its own ----
    npc,            \* position: "idle", "call", "returned"
    np_arg,         \* the next_page argument
    np_result,      \* the value returned
    \* ---- the other scripts, one record per script ----
    pathCall,       \* destination path of one (record, format) pair (govinfo_cli.py):
                    \* pc, package_id, date_issued, fmt and the path dest computed
    installer,      \* sync_extensions, load_state, save_state (gemini_extension_installer.py):
                    \* pc, state_file and tmp_file (file contents), state (the dict in
                    \* memory), loaded (what load_state returned), dry_run,
                    \* target_extensions and the index ti of the next one, the three
                    \* counts; history: file0 (state file when the call began), commands
                    \* (ids whose install command ran), outcomes, save_outcome
    journal,        \* log_journal_entry (journaling_tool_example.py): pc, files (content
                    \* of each journal, a sequence of chunks), path (last path returned);
                    \* history: calls
    ingest,         \* fetch_packages_for_collection (govinfo_sql_ingest.py): pc, offset,
                    \* all_items (first MaxIngested entries); history: offsets_sent
    bucket          \* RateLimitPolicy (rate_limit_policy.py): pc, max_requests_per_minute,
                    \* tokens, last_refill; history: clock, calls, allowed_now, before,
                    \* last_allow

fetchVars == <<fpc, max_packages, offset_mark, seen_offsets, packages, requested,
               last_page, stopped_by>>
dlVars == <<dpc, max_retries, attempt, stream, dest, fh_open, result, answers, sleeps, faults>>
runVars == <<rpc, fmt_list, dry_run, summaries, idx, fi, download_info, files, enriched,
             dispatched, log, reported>>
cmdVars == <<cpc, args, exit_error, output_dir_made>>
fnVars == <<npc, np_arg, np_result>>
\* The variables of the other scripts, one tuple per script.
toolVars == <<pathCall, installer, journal, ingest, bucket>>
coreVars == <<fetchVars, dlVars, runVars, cmdVars, fnVars>>
pathOthers == <<coreVars, installer, journal, ingest, bucket>>
instOthers == <<coreVars, pathCall, journal, ingest, bucket>>
journalOthers == <<coreVars, pathCall, installer, ingest, bucket>>
ingestOthers == <<coreVars, pathCall, installer, journal, bucket>>
bucketOthers == <<coreVars, pathCall, installer, journal, ingest>>

\* ------------------------------------------------------------------------
\* Bounds of the model
\* ------------------------------------------------------------------------
NumMarks == 1       \* distinct cursor values the server may use besides "*"
MaxItems == 2       \* items per page
MaxCap == 2         \* largest max_packages value tried
MaxRetries == 2     \* largest max_retries value tried
MaxChunks == 2      \* chunks of a response body
MaxRecords == 2     \* discovered records of a run
MaxParams == 2      \* query parameters of a nextPage URL
MaxIdLen == 3       \* characters of a package id
MaxExts == 2        \* extension ids of the marketplace
MaxEntries == 3     \* calls of log_journal_entry
MaxIngested == 2    \* entries of all_items that are tracked
MaxRate == 3        \* largest max_requests_per_minute tried
MaxClock == 3       \* clock readings run from 0 to MaxClock * ClockStep seconds
MaxCalls == 4       \* allow() calls on one policy

\* ------------------------------------------------------------------------
\* Values
\* ------------------------------------------------------------------------
None == "None"                      \* Python None where a string is expected
NoLimit == <<>>                     \* max_packages=None
Sentinel == "*"                     \* initial offsetMark
MarkNames == <<"m1", "m2", "m3", "m4">>
Marks == {Sentinel} \cup {MarkNames[i] : i \in 1..NumMarks}

\* Python truthiness of an Optional[str]
Truthy(s) == s \notin {None, ""}

\* a or b, on Optional[str]
OrElse(a, b) == IF Truthy(a) THEN a ELSE b

\* Items of a discovery page (the raw JSON objects of the item list).
Items ==
    { [packageId |-> "BILLS-1", package_id |-> None,     dateIssued |-> "2019-05-01"],
      [packageId |-> None,      package_id |-> "CREC-2", dateIssued |-> None],
      [packageId |-> "",        package_id |-> None,     dateIssued |-> "2019-05-01"] }

SeqsUpTo(S, n) == UNION { [1..k -> S] : k \in 0..n }

\* Item lists of a page: up to MaxItems items, no item twice in a page.
ItemLists ==
    { l \in SeqsUpTo(Items, MaxItems) : \A i, j \in DOMAIN l : i # j => l[i] # l[j] }

\* The value found under one key of the response object: a list or not.
NotAList == [isList |-> FALSE, items |-> <<>>]
AsList(l) == [isList |-> TRUE, items |-> l]

\* nextPage of a response: absent (None), empty, a raw cursor, or a URL.
\* Of a string the model keeps what the code looks at: whether it starts
\* with "http", the name=value pairs of its query as they are written
\* (values percent-encoded), and text, the string as a whole.
NoNextPage == [form |-> "none", text |-> None, http |-> FALSE, params |-> <<>>]
EmptyNextPage == [form |-> "empty", text |-> "", http |-> FALSE, params |-> <<>>]
RawCursor(m) == [form |-> "raw", text |-> m, http |-> FALSE, params |-> <<>>]

UrlText(http) == IF http THEN "https://api.govinfo.gov/..." ELSE "/published/..."
Url(http, params) == [form |-> "url", text |-> UrlText(http), http |-> http, params |-> params]

\* Percent-encoding of a cursor in a query, and its decoding by parse_qs.
Quote(m) == IF m = "*" THEN "%2A" ELSE m
Unquote(v) == IF v = "%2A" THEN "*" ELSE v

\* The nextPage values of the discovery pages: none, empty, each cursor raw
\* and each cursor in the offsetMark parameter of an absolute URL.
NextPages ==
    {NoNextPage, EmptyNextPage}
    \cup { RawCursor(m) : m \in Marks }
    \cup { Url(TRUE, << [name |-> "offsetMark", value |-> Quote(m)] >>) : m \in Marks }

\* Response bodies (JSON objects).  A key holds no list, an empty list or
\* an item list; at most one key holds a non-empty list and the keys after
\* it hold none.
KeyValues == {NotAList} \cup {AsList(l) : l \in ItemLists}

PageData ==
    { d \in [packages : KeyValues, results : KeyValues, records : KeyValues,
             nextPage : NextPages] :
        /\ d.packages.items # <<>> => d.results = NotAList
        /\ (d.packages.items # <<>> \/ d.results.items # <<>>) => d.records = NotAList }

\* What one page request can come back with: a connection error, a timeout,
\* an HTTP error status (raise_for_status), a body that is not JSON, or a
\* JSON object.
FailureKinds == {"connerror", "timeout", "httperror", "badjson"}

PageResponses ==
    { [kind |-> k, data |-> <<>>] : k \in FailureKinds }
    \cup { [kind |-> "ok", data |-> d] : d \in PageData }

\* History record of a page request: the kind of the response and the
\* non-empty item list it holds under a known key (<<>> when it holds none).
Listed(data) ==
    IF data.packages.items # <<>> THEN data.packages.items
    ELSE IF data.results.items # <<>> THEN data.results.items
    ELSE data.records.items

PageSeen(resp) ==
    [kind |-> resp.kind,
     listed |-> IF resp.kind = "ok" THEN Listed(resp.data) ELSE <<>>]

NoPage == [kind |-> "none", listed |-> <<>>]

\* ------------------------------------------------------------------------
\* next_offset_from_nextpage
\* ------------------------------------------------------------------------
\* "offsetMark=" in next_page
MentionsOffsetMark(next_page) ==
    \E i \in DOMAIN next_page.params :
        next_page.params[i].name \in {"offsetMark", "xoffsetMark"}

\* parse_qs(query).get(name): the decoded values of the parameters of that
\* name, blank values dropped; <<>> stands for None.
QueryValues(params, name) ==
    LET kept == SelectSeq(params, LAMBDA q : q.name = name /\ q.value # "")
    IN  [i \in DOMAIN kept |-> Unquote(kept[i].value)]

NextOffsetFromNextpage(next_page) ==
    IF next_page.form \in {"none", "empty"} THEN None          \* if not next_page
    ELSE IF /\ MentionsOffsetMark(next_page) /\ next_page.http
            /\ QueryValues(next_page.params, "offsetMark") # <<>>
    THEN QueryValues(next_page.params, "offsetMark")[1]
    ELSE next_page.text

\* The arguments tried when the function is called on its own: the forms
\* above, and relative as well as absolute URLs with up to MaxParams query
\* parameters.
QueryParams ==
    [name : {"offsetMark", "xoffsetMark", "pageSize"}, value : {"", "m1", "%2A"}]

NextPageArgs ==
    {NoNextPage, EmptyNextPage}
    \cup { RawCursor(m) : m \in Marks }
    \cup { Url(h, ps) : h \in BOOLEAN, ps \in SeqsUpTo(QueryParams, MaxParams) }

IdleFn ==
    /\ npc = "idle"
    /\ np_arg = NoNextPage
    /\ np_result = None

InitFn ==
    /\ npc = "call"
    /\ np_arg \in NextPageArgs
    /\ np_result = None

NextOffsetCall ==
    /\ npc = "call"
    /\ npc' = "returned"
    /\ np_result' = NextOffsetFromNextpage(np_arg)
    /\ UNCHANGED <<np_arg, fetchVars, dlVars, runVars, cmdVars, toolVars>>

\* ------------------------------------------------------------------------
\* fetch_published_packages
\* ------------------------------------------------------------------------
\* items = first of data["packages"], data["results"], data["records"]
\* that is a list; [] when none is.
PageItems(data) ==
    IF data.packages.isList THEN data.packages.items
    ELSE IF data.results.isList THEN data.results.items
    ELSE IF data.records.isList THEN data.records.items
    ELSE <<>>

PkgId(item) == OrElse(item.packageId, item.package_id)

PackageRecord(item) ==
    [package_id |-> PkgId(item), date_issued |-> item.dateIssued]

CapReached(pkgs, cap) == cap # NoLimit /\ Len(pkgs) >= cap[1]

\* The for-loop over the items of one page, started with the accumulated
\* list pkgs: result is [pkgs, stopped], stopped when the cap returned.
RECURSIVE ProcessItems(_, _, _)
ProcessItems(items, pkgs, cap) ==
    IF items = <<>> THEN [pkgs |-> pkgs, stopped |-> FALSE]
    ELSE IF ~Truthy(PkgId(Head(items))) THEN ProcessItems(Tail(items), pkgs, cap)
    ELSE LET appended == Append(pkgs, PackageRecord(Head(items)))
         IN  IF CapReached(appended, cap)
             THEN [pkgs |-> appended, stopped |-> TRUE]
             ELSE ProcessItems(Tail(items), appended, cap)

\* (variant of GuardHit: the guard never fires)
GuardHit_Off(next_offset, seen) == FALSE

\* The cycle guard: next_offset in seen_offsets
GuardHit(next_offset, seen) == next_offset \in seen

InitFetch ==
    /\ fpc = "loop"
    /\ max_packages \in {NoLimit} \cup { <<n>> : n \in 0..MaxCap }
    /\ offset_mark = Sentinel
    /\ seen_offsets = {}
    /\ packages = <<>>
    /\ requested = <<>>
    /\ last_page = NoPage
    /\ stopped_by = ""

\* (variant of Caught: the JSON decode error is not caught)
Caught_RequestOnly(kind) == kind \in {"connerror", "timeout", "httperror"}

\* The failures the two except clauses of the loop catch:
\* requests.RequestException and json.JSONDecodeError.
Caught(kind) == kind \in {"connerror", "timeout", "httperror", "badjson"}

\* One iteration of the while loop, for the response resp to this page
\* request.
FetchPage(resp) ==
    /\ fpc = "loop"
    /\ requested' = Append(requested, offset_mark)
    /\ last_page' = PageSeen(resp)
    /\ IF resp.kind # "ok"
       THEN /\ IF Caught(resp.kind)
               THEN fpc' = "returned" /\ stopped_by' = "request_failed"
               ELSE fpc' = "raised" /\ stopped_by' = "exception"
            /\ UNCHANGED <<offset_mark, seen_offsets, packages>>
       ELSE LET items == PageItems(resp.data)
                r == ProcessItems(items, packages, max_packages)
                next_offset == NextOffsetFromNextpage(resp.data.nextPage)
            IN  IF items = <<>>
                THEN /\ fpc' = "returned"
                     /\ stopped_by' = "no_more_results"
                     /\ UNCHANGED <<offset_mark, seen_offsets, packages>>
                ELSE /\ packages' = r.pkgs
                     /\ IF r.stopped \/ ~Truthy(next_offset)
                           \/ GuardHit(next_offset, seen_offsets)
                        THEN /\ fpc' = "returned"
                             /\ stopped_by' = IF r.stopped THEN "max_packages"
                                              ELSE IF ~Truthy(next_offset) THEN "no_next_page"
                                              ELSE "repeated_offset"
                             /\ UNCHANGED <<offset_mark, seen_offsets>>
                        ELSE /\ seen_offsets' = seen_offsets \cup {next_offset}
                             /\ offset_mark' = next_offset
                             /\ fpc' = "loop"
                             /\ stopped_by' = ""
    /\ UNCHANGED <<max_packages, dlVars, runVars, cmdVars, fnVars, toolVars>>

NextFetch == \E resp \in PageResponses : FetchPage(resp)

IdleFetch ==
    /\ fpc = "idle"
    /\ max_packages = NoLimit
    /\ offset_mark = Sentinel
    /\ seen_offsets = {}
    /\ packages = <<>>
    /\ requested = <<>>
    /\ last_page = NoPage
    /\ stopped_by = ""

\* ------------------------------------------------------------------------
\* download_with_retries
\* ------------------------------------------------------------------------
DefaultRetryAfter == 30     \* resp.headers.get("Retry-After", "30")
BackoffBase == 5            \* time.sleep(5 * attempt)

\* The Retry-After header of a response: absent, an integer number of
\* seconds (a negative one included), or text that int() rejects.
RetryAfterHeaders ==
    { [kind |-> "absent", secs |-> 0], [kind |-> "nonint", secs |-> 0],
      [kind |-> "int", secs |-> 2], [kind |-> "int", secs |-> 0 - 1] }

NoHeader == [kind |-> "absent", secs |-> 0]

Bodies == SeqsUpTo({"x", ""}, MaxChunks)    \* "" is a keep-alive chunk

\* What requests.get(url, stream=True, timeout=120) can come back with:
\* a requests exception, or a response with a status.
AssetAnswers ==
    { [kind |-> k, status |-> 0, retry_after |-> NoHeader, body |-> <<>>] :
        k \in {"timeout", "connerror"} }
    \cup { [kind |-> "response", status |-> 503, retry_after |-> h, body |-> <<>>] :
        h \in RetryAfterHeaders }
    \cup { [kind |-> "response", status |-> st, retry_after |-> NoHeader, body |-> <<>>] :
        st \in {404, 500} }
    \cup { [kind |-> "response", status |-> 200, retry_after |-> NoHeader, body |-> b] :
        b \in Bodies }

\* Outcome of dest.parent.mkdir(...) and dest.open("wb")
FsOutcomes == {"ok", "mkdir_fails", "open_fails"}

\* (variant of RetryAfterSeconds: the header is ignored)
RetryAfterSeconds_Fixed(h) == DefaultRetryAfter

\* int(resp.headers.get("Retry-After", "30")); defined when the text is an integer
RetryAfterSeconds(h) == IF h.kind = "absent" THEN DefaultRetryAfter ELSE h.secs

\* int() raises ValueError on non-integer text, time.sleep() on a negative number
RetryAfterRaises(h) == h.kind = "nonint" \/ (h.kind = "int" /\ h.secs < 0)

\* resp.raise_for_status() raises HTTPError
IsHttpError(status) == status >= 400

\* (variant of MayAttempt: one more pass of the loop)
MayAttempt_OneMore(att, retries) == att <= retries + 1

\* while attempt <= max_retries
MayAttempt(att, retries) == att <= retries

\* (variant of BudgetSpent: gives up one attempt early)
BudgetSpent_Early(att, retries) == att >= retries

\* if attempt > max_retries: break
BudgetSpent(att, retries) == att > retries

\* (variant of Backoff: the same pause after every failed attempt)
Backoff_Constant(att) == BackoffBase

\* time.sleep(5 * attempt)
Backoff(att) == BackoffBase * att

NoFile == [exists |-> FALSE, content |-> <<>>]

InitDl ==
    /\ dpc = "loop"
    /\ max_retries \in 0..MaxRetries
    /\ attempt = 0
    /\ stream = <<>>
    /\ dest \in {NoFile, [exists |-> TRUE, content |-> <<"old">>]}
    /\ fh_open = FALSE
    /\ result = "none"
    /\ answers = <<>>
    /\ sleeps = <<>>
    /\ faults = <<>>

IdleDl ==
    /\ dpc = "idle"
    /\ max_retries = 0
    /\ attempt = 0
    /\ stream = <<>>
    /\ dest = NoFile
    /\ fh_open = FALSE
    /\ result = "none"
    /\ answers = <<>>
    /\ sleeps = <<>>
    /\ faults = <<>>

\* except requests.RequestException: give up when the budget is spent,
\* else back off and go round the loop again.
DlOnRequestException ==
    IF BudgetSpent(attempt', max_retries)
    THEN /\ dpc' = "returned"
         /\ result' = "False"
         /\ UNCHANGED sleeps
    ELSE /\ sleeps' = Append(sleeps, Backoff(attempt'))
         /\ dpc' = "loop"
         /\ UNCHANGED result

\* One pass of the while loop up to the point where the body is streamed:
\* the request, the 503 branch, raise_for_status, mkdir and open.
DlRequest(ans, fs) ==
    /\ dpc = "loop"
    /\ MayAttempt(attempt, max_retries)
    /\ UNCHANGED <<fetchVars, runVars, cmdVars, fnVars, toolVars>>
    /\ attempt' = attempt + 1
    /\ answers' = Append(answers, ans)
    /\ UNCHANGED max_retries
    /\ IF ans.kind # "response"
       THEN /\ DlOnRequestException
            /\ UNCHANGED <<stream, dest, fh_open, faults>>
       ELSE IF ans.status = 503
       THEN IF RetryAfterRaises(ans.retry_after)
            THEN /\ dpc' = "raised"
                 /\ result' = "ValueError"
                 /\ UNCHANGED <<stream, dest, fh_open, sleeps, faults>>
            ELSE /\ sleeps' = Append(sleeps, RetryAfterSeconds(ans.retry_after))
                 /\ dpc' = "loop"
                 /\ UNCHANGED <<stream, dest, fh_open, result, faults>>
       ELSE IF IsHttpError(ans.status)
       THEN /\ DlOnRequestException
            /\ UNCHANGED <<stream, dest, fh_open, faults>>
       ELSE IF fs # "ok"
       THEN /\ dpc' = "raised"
            /\ result' = "OSError"
            /\ faults' = Append(faults, fs)
            /\ UNCHANGED <<stream, dest, fh_open, sleeps>>
       ELSE /\ dest' = [exists |-> TRUE, content |-> <<>>]
            /\ fh_open' = TRUE
            /\ stream' = ans.body
            /\ dpc' = "streaming"
            /\ UNCHANGED <<result, sleeps, faults>>

\* for chunk in resp.iter_content(...): if chunk: fh.write(chunk)
DlChunk(write_ok) ==
    /\ dpc = "streaming"
    /\ stream # <<>>
    /\ UNCHANGED <<fetchVars, runVars, cmdVars, fnVars, toolVars>>
    /\ UNCHANGED <<max_retries, attempt, answers, sleeps>>
    /\ IF Head(stream) = ""
       THEN /\ stream' = Tail(stream)
            /\ UNCHANGED <<dpc, dest, fh_open, result, faults>>
       ELSE IF write_ok
       THEN /\ dest' = [dest EXCEPT !.content = Append(@, Head(stream))]
            /\ stream' = Tail(stream)
            /\ UNCHANGED <<dpc, fh_open, result, faults>>
       ELSE /\ fh_open' = FALSE
            /\ dpc' = "raised"
            /\ result' = "OSError"
            /\ faults' = Append(faults, "write_fails")
            /\ UNCHANGED <<stream, dest>>

\* (variant of DlStreamError: the partial file is removed when the stream
\* breaks)
DlStreamError_Cleanup ==
    /\ dpc = "streaming"
    /\ UNCHANGED <<fetchVars, runVars, cmdVars, fnVars, toolVars>>
    /\ fh_open' = FALSE
    /\ attempt' = attempt
    /\ faults' = Append(faults, "stream_breaks")
    /\ DlOnRequestException
    /\ dest' = NoFile
    /\ UNCHANGED <<max_retries, stream, answers>>

\* iter_content raises a requests exception in the middle of the body
DlStreamError ==
    /\ dpc = "streaming"
    /\ UNCHANGED <<fetchVars, runVars, cmdVars, fnVars, toolVars>>
    /\ fh_open' = FALSE
    /\ attempt' = attempt
    /\ faults' = Append(faults, "stream_breaks")
    /\ DlOnRequestException
    /\ UNCHANGED <<max_retries, stream, dest, answers>>

\* (variant of DlFinish: return True from inside the chunk loop)
DlFinish_Early ==
    /\ dpc = "streaming"
    /\ UNCHANGED <<fetchVars, runVars, cmdVars, fnVars, toolVars>>
    /\ fh_open' = FALSE
    /\ dpc' = "returned"
    /\ result' = "True"
    /\ UNCHANGED <<max_retries, attempt, stream, dest, answers, sleeps, faults>>

\* the stream is exhausted: leave the with blocks, return True
DlFinish ==
    /\ dpc = "streaming"
    /\ UNCHANGED <<fetchVars, runVars, cmdVars, fnVars, toolVars>>
    /\ stream = <<>>
    /\ fh_open' = FALSE
    /\ dpc' = "returned"
    /\ result' = "True"
    /\ UNCHANGED <<max_retries, attempt, stream, dest, answers, sleeps, faults>>

\* the while condition fails: log the failure, return False
DlExhausted ==
    /\ dpc = "loop"
    /\ UNCHANGED <<fetchVars, runVars, cmdVars, fnVars, toolVars>>
    /\ ~MayAttempt(attempt, max_retries)
    /\ dpc' = "returned"
    /\ result' = "False"
    /\ UNCHANGED <<max_retries, attempt, stream, dest, fh_open, answers, sleeps, faults>>

NextDl ==
    \/ \E ans \in AssetAnswers, fs \in FsOutcomes : DlRequest(ans, fs)
    \/ \E write_ok \in BOOLEAN : DlChunk(write_ok)
    \/ DlStreamError
    \/ DlFinish
    \/ DlExhausted

\* ------------------------------------------------------------------------
\* fetch_package_summary, download_package_formats, handle_download_command
\* ------------------------------------------------------------------------
DefaultMaxRetries == 3      \* def download_with_retries(..., max_retries: int = 3)

DOWNLOAD_KEY_MAP ==
    [txt |-> "txtLink", htm |-> "htmLink", html |-> "htmLink", xml |-> "xmlLink",
     pdf |-> "pdfLink", mods |-> "modsLink", premis |-> "premisLink", zip |-> "zipLink"]

\* DOWNLOAD_KEY_MAP.get(fmt)
LinkKey(fmt) == IF fmt \in DOMAIN DOWNLOAD_KEY_MAP THEN DOWNLOAD_KEY_MAP[fmt] ELSE None

\* f.strip().lower() on the format tokens of the model
StripLower(tok) ==
    CASE tok = " PDF" -> "pdf"
      [] tok = " " -> ""
      [] OTHER -> tok

\* [f.strip().lower() for f in formats if f.strip()]
NormalizeFormats(formats) ==
    LET kept == SelectSeq(formats, LAMBDA f : StripLower(f) # "")
    IN  [i \in DOMAIN kept |-> StripLower(kept[i])]

\* The --formats lists tried (after the split at ",").
FormatArgs ==
    { <<"pdf">>, <<"pdf", "xml">>, <<" PDF", "pdf">>, <<"doc", "xml">>, <<" ", "html">> }

\* The "download" member of a summary object: missing, empty, a link
\* table, or a JSON value that is no object (a string).
NoLinks == [pdfLink |-> None, xmlLink |-> None, htmLink |-> None]

LinkTables ==
    { [NoLinks EXCEPT !.pdfLink = "https://a/pdf"],
      [NoLinks EXCEPT !.pdfLink = "https://a/pdf", !.xmlLink = "https://a/xml"],
      [NoLinks EXCEPT !.pdfLink = "", !.htmLink = "https://a/htm"] }

DownloadSections ==
    { [kind |-> k, links |-> NoLinks] : k \in {"absent", "empty", "nondict"} }
    \cup { [kind |-> "links", links |-> t] : t \in LinkTables }

NoDownload == [kind |-> "absent", links |-> NoLinks]

\* What the summary request of a record comes back with: a requests
\* exception, an undecodable body, or JSON: a falsy value ({} [] null 0),
\* a truthy value that is no object ([1], "x"), or an object.
SummaryResponses ==
    { [kind |-> k, download |-> NoDownload] :
        k \in {"error", "badjson", "falsy", "nonobject"} }
    \cup { [kind |-> "object", download |-> d] : d \in DownloadSections }

\* (variant of FetchPackageSummary: without raise_for_status the body of an
\* error response is decoded and returned)
FetchPackageSummary_NoStatusCheck(resp) ==
    IF resp.kind = "badjson" THEN [kind |-> "none", download |-> NoDownload]
    ELSE IF resp.kind = "error"
    THEN [kind |-> "object",
          download |-> [kind |-> "links",
                        links |-> [pdfLink |-> "https://a/pdf", xmlLink |-> "https://a/xml",
                                   htmLink |-> None]]]
    ELSE resp

\* fetch_package_summary: None when the request fails or the body is not
\* JSON, otherwise the decoded document.
FetchPackageSummary(resp) ==
    IF resp.kind \in {"error", "badjson"} THEN [kind |-> "none", download |-> NoDownload]
    ELSE resp

\* download_info.get(link_key), on a link table
LinkOf(info, link_key) ==
    IF link_key \in DOMAIN info.links THEN info.links[link_key] ELSE None

\* base_output_dir / collection_code / year / f"{package_id}.{fmt}": the
\* path is determined by the record and the format.
DestPath(pkg, fmt) == [package_id |-> pkg.package_id, date_issued |-> pkg.date_issued, ext |-> fmt]

\* The discovered records of a run: the first n of these.
Discovered ==
    << [package_id |-> "BILLS-1", date_issued |-> "2019-05-01"],
       [package_id |-> "CREC-2", date_issued |-> None],
       [package_id |-> "FR-3", date_issued |-> "2020"],
       [package_id |-> "BILLS-4", date_issued |-> None] >>

FileAt(fs, path) ==
    IF \E f \in fs : f.path = path
    THEN [exists |-> TRUE, content |-> (CHOOSE f \in fs : f.path = path).content]
    ELSE NoFile

\* the file system after download_with_retries left the file d at path
WithFile(fs, path, d) ==
    {f \in fs : f.path # path}
    \cup (IF d.exists THEN {[path |-> path, content |-> d.content]} ELSE {})

IdleRun ==
    /\ rpc = "idle"
    /\ fmt_list = <<>>
    /\ dry_run = FALSE
    /\ summaries = <<>>
    /\ idx = 0
    /\ fi = 0
    /\ download_info = NoDownload
    /\ files = {}
    /\ enriched = <<>>
    /\ dispatched = <<>>
    /\ log = <<>>
    /\ reported = <<>>

\* The run after discovery returned and the arguments were validated.
InitRun ==
    /\ rpc = "record"
    /\ fpc = "returned"
    /\ max_packages = NoLimit
    /\ offset_mark = Sentinel
    /\ seen_offsets = {}
    /\ requested = <<>>
    /\ last_page = NoPage
    /\ stopped_by = ""
    /\ \E n \in 0..MaxRecords : packages = SubSeq(Discovered, 1, n)
    /\ fmt_list \in { NormalizeFormats(f) : f \in FormatArgs }
    /\ dry_run \in BOOLEAN
    /\ summaries \in [1..Len(packages) -> SummaryResponses]
    /\ idx = 1
    /\ fi = 0
    /\ download_info = NoDownload
    /\ files = {}
    /\ enriched = <<>>
    /\ dispatched = <<>>
    /\ log = <<>>
    /\ reported = <<>>

\* if not packages: log "No packages found", return;
\* after the for loop: log "Done", return
RunFinish ==
    /\ rpc = "record"
    /\ UNCHANGED <<fetchVars, cmdVars, fnVars, toolVars>>
    /\ idx > Len(packages)
    /\ rpc' = "done"
    /\ reported' = IF packages = <<>> THEN <<>> ELSE <<Len(packages)>>
    /\ log' = Append(log, [msg |-> IF packages = <<>> THEN "no_packages" ELSE "done",
                            idx |-> 0, fmt |-> None, url |-> None])
    /\ UNCHANGED <<fmt_list, dry_run, summaries, idx, fi, download_info, files, enriched,
                   dispatched>>
    /\ UNCHANGED dlVars

\* download_package_formats(package = packages[idx]) up to its for loop:
\* the format list, the summary request, the download section.
RunRecord ==
    /\ rpc = "record"
    /\ UNCHANGED <<fetchVars, reported, cmdVars, fnVars, toolVars>>
    /\ idx <= Len(packages)
    /\ UNCHANGED <<fmt_list, dry_run, summaries, files, dispatched>>
    /\ UNCHANGED dlVars
    /\ LET summary == FetchPackageSummary(summaries[idx])
           processing == [msg |-> "processing", idx |-> idx, fmt |-> None, url |-> None]
       IN  IF NormalizeFormats(fmt_list) = <<>>
           THEN /\ log' = log \o << processing,
                                    [msg |-> "no_formats", idx |-> idx, fmt |-> None, url |-> None] >>
                /\ idx' = idx + 1
                /\ UNCHANGED <<rpc, fi, download_info, enriched>>
           ELSE /\ enriched' = Append(enriched, idx)
                /\ IF summary.kind = "none"
                   THEN \* fetch_package_summary logged the error and returned None
                        /\ log' = log \o << processing,
                                [msg |-> "summary_failed", idx |-> idx, fmt |-> None, url |-> None] >>
                        /\ idx' = idx + 1
                        /\ UNCHANGED <<rpc, fi, download_info>>
                   ELSE IF summary.kind = "falsy"
                   THEN \* if not summary: return
                        /\ log' = Append(log, processing)
                        /\ idx' = idx + 1
                        /\ UNCHANGED <<rpc, fi, download_info>>
                   ELSE IF summary.kind = "nonobject"
                   THEN \* summary.get raises AttributeError
                        /\ log' = Append(log, processing)
                        /\ rpc' = "aborted"
                        /\ UNCHANGED <<idx, fi, download_info>>
                   ELSE IF summary.download.kind \in {"absent", "empty"}
                   THEN \* download_info = summary.get("download") or {}: empty
                        /\ log' = log \o << processing,
                                [msg |-> "no_download_section", idx |-> idx, fmt |-> None, url |-> None] >>
                        /\ idx' = idx + 1
                        /\ UNCHANGED <<rpc, fi, download_info>>
                   ELSE /\ log' = Append(log, processing)
                        /\ download_info' = summary.download
                        /\ fi' = 1
                        /\ rpc' = "formats"
                        /\ UNCHANGED idx

\* One pass of the for loop over fmt_list, up to the call of
\* download_with_retries.
RunFormat ==
    /\ rpc = "formats"
    /\ UNCHANGED <<fetchVars, reported, cmdVars, fnVars, toolVars>>
    /\ fi <= Len(NormalizeFormats(fmt_list))
    /\ UNCHANGED <<fmt_list, dry_run, summaries, idx, download_info, files, enriched>>
    /\ LET fmt == NormalizeFormats(fmt_list)[fi]
           link_key == LinkKey(fmt)
           url == LinkOf(download_info, link_key)
           path == DestPath(packages[idx], fmt)
       IN  IF ~Truthy(link_key)
           THEN /\ log' = Append(log, [msg |-> "unknown_format", idx |-> idx, fmt |-> fmt, url |-> None])
                /\ fi' = fi + 1
                /\ UNCHANGED <<rpc, dispatched>>
                /\ UNCHANGED dlVars
           ELSE IF download_info.kind = "nondict"
           THEN \* download_info.get raises AttributeError
                /\ rpc' = "aborted"
                /\ UNCHANGED <<fi, dispatched, log>>
                /\ UNCHANGED dlVars
           ELSE IF ~Truthy(url)
           THEN /\ log' = Append(log, [msg |-> "not_available", idx |-> idx, fmt |-> fmt, url |-> None])
                /\ fi' = fi + 1
                /\ UNCHANGED <<rpc, dispatched>>
                /\ UNCHANGED dlVars
           ELSE IF dry_run
           THEN /\ log' = Append(log, [msg |-> "dry_run", idx |-> idx, fmt |-> fmt, url |-> url])
                /\ fi' = fi + 1
                /\ UNCHANGED <<rpc, dispatched>>
                /\ UNCHANGED dlVars
           ELSE \* download_with_retries(url, dest) is entered
                /\ dispatched' = Append(dispatched, <<idx, fmt>>)
                /\ rpc' = "downloading"
                /\ dpc' = "loop"
                /\ max_retries' = DefaultMaxRetries
                /\ attempt' = 0
                /\ dest' = FileAt(files, path)
                /\ UNCHANGED <<fi, log, stream, fh_open, result, answers, sleeps, faults>>

\* the for loop over fmt_list is over: back in handle_download_command
RunFormatsDone ==
    /\ rpc = "formats"
    /\ UNCHANGED <<fetchVars, reported, cmdVars, fnVars, toolVars>>
    /\ fi > Len(NormalizeFormats(fmt_list))
    /\ rpc' = "record"
    /\ idx' = idx + 1
    /\ fi' = 0
    /\ download_info' = NoDownload
    /\ UNCHANGED <<fmt_list, dry_run, summaries, files, enriched, dispatched, log>>
    /\ UNCHANGED dlVars

\* download_with_retries returned (its result is not used) or raised
RunDownloadEnds ==
    /\ rpc = "downloading"
    /\ UNCHANGED <<fetchVars, reported, cmdVars, fnVars, toolVars>>
    /\ dpc \in {"returned", "raised"}
    /\ files' = WithFile(files, DestPath(packages[idx], NormalizeFormats(fmt_list)[fi]), dest)
    /\ IF dpc = "returned"
       THEN rpc' = "formats" /\ fi' = fi + 1
       ELSE rpc' = "aborted" /\ fi' = fi
    /\ dpc' = "idle"
    /\ max_retries' = 0
    /\ attempt' = 0
    /\ stream' = <<>>
    /\ dest' = NoFile
    /\ fh_open' = FALSE
    /\ result' = "none"
    /\ answers' = <<>>
    /\ sleeps' = <<>>
    /\ faults' = <<>>
    /\ UNCHANGED <<fmt_list, dry_run, summaries, idx, download_info, enriched, dispatched, log>>

\* Asset servers and file systems tried under the driver.
RunAssetAnswers ==
    { a \in AssetAnswers :
        \/ a.kind = "response" /\ a.status = 503 /\ a.retry_after.kind = "absent"
        \/ a.kind = "response" /\ a.status = 503 /\ a.retry_after.kind = "nonint"
        \/ a.kind = "response" /\ a.status = 200 /\ a.body = <<"x">> }

NextRun ==
    \/ RunRecord
    \/ RunFormat
    \/ RunFormatsDone
    \/ RunDownloadEnds
    \/ RunFinish
    \/ \E ans \in RunAssetAnswers, fs \in {"ok", "open_fails"} : DlRequest(ans, fs)
    \/ DlChunk(TRUE)
    \/ DlStreamError
    \/ DlFinish
    \/ DlExhausted

\* ------------------------------------------------------------------------
\* handle_download_command, from its call to the first page request
\* ------------------------------------------------------------------------
DEFAULT_PAGE_SIZE == 100
MAX_PAGE_SIZE == 1000

\* --start-date / --end-date values tried: not given, a YYYY-MM-DD date, a
\* date without zero padding, a date in another notation.
DateArgs == {None, "2020-01-05", "2020-1-5", "01/05/2020"}

\* datetime.strptime(date_str, "%Y-%m-%d") does not raise: %m and %d take
\* one or two digits.
StrptimeAccepts(date_str) == date_str \in {"2020-01-05", "2020-1-5"}

\* The --collections values tried (after the split at ",").
CollectionArgs == { <<"">>, <<" ", "">>, <<"bills">>, <<"BILLS", " crec">> }

StripUpper(tok) ==
    CASE tok = " " -> ""
      [] tok = "bills" -> "BILLS"
      [] tok = " crec" -> "CREC"
      [] OTHER -> tok

\* [c.strip().upper() for c in args.collections.split(",") if c.strip()]
NormalizeCollections(collections) ==
    LET kept == SelectSeq(collections, LAMBDA c : StripUpper(c) # "")
    IN  [i \in DOMAIN kept |-> StripUpper(kept[i])]

\* The --formats values tried by the command (after the split at ",").
CmdFormatArgs == { <<"">>, <<" ">>, <<"pdf">>, <<" PDF", "pdf">> }

PageSizeArgs == {0, 1, MAX_PAGE_SIZE, MAX_PAGE_SIZE + 1}

CmdArgs ==
    [api_key : {None, "k"}, env_key : {None, "e"},
     last_years : {<<>>, <<0>>, <<1>>},
     start_date : DateArgs, end_date : DateArgs,
     collections : CollectionArgs, formats : CmdFormatArgs,
     page_size : PageSizeArgs, max_packages : {NoLimit, <<1>>}]

NoArgs ==
    [api_key |-> None, env_key |-> None, last_years |-> <<>>,
     start_date |-> None, end_date |-> None,
     collections |-> <<>>, formats |-> <<>>,
     page_size |-> DEFAULT_PAGE_SIZE, max_packages |-> NoLimit]

\* The first check that fails, in the order the command makes them
\* (resolve_api_key, the date range, collections, formats, then the checks
\* at the head of fetch_published_packages); "" when none fails.
CmdError(a) ==
    IF ~Truthy(OrElse(a.api_key, a.env_key)) THEN "SystemExit: API key is required"
    ELSE IF a.last_years # <<>> /\ a.last_years[1] <= 0
    THEN "ValueError: --last-years must be a positive integer"
    ELSE IF a.last_years = <<>> /\ ~Truthy(a.start_date)
    THEN "SystemExit: --start-date is required"
    ELSE IF a.last_years = <<>> /\ ~StrptimeAccepts(a.start_date)
    THEN "ValueError: Invalid date format"
    ELSE IF a.last_years = <<>> /\ Truthy(a.end_date) /\ ~StrptimeAccepts(a.end_date)
    THEN "ValueError: Invalid date format"
    ELSE IF NormalizeCollections(a.collections) = <<>>
    THEN "SystemExit: At least one collection code"
    ELSE IF NormalizeFormats(a.formats) = <<>>
    THEN "SystemExit: At least one format"
    ELSE IF a.page_size <= 0 \/ a.page_size > MAX_PAGE_SIZE
    THEN "ValueError: page_size must be between 1 and 1000"
    ELSE ""

\* ensure_output_dir(output_dir) is reached once the collections are accepted
OutputDirReached(a) ==
    CmdError(a) \in {"", "SystemExit: At least one format",
                     "ValueError: page_size must be between 1 and 1000"}

IdleCmd ==
    /\ cpc = "idle"
    /\ args = NoArgs
    /\ exit_error = ""
    /\ output_dir_made = FALSE

InitCmd ==
    /\ cpc = "start"
    /\ args \in CmdArgs
    /\ exit_error = ""
    /\ output_dir_made = FALSE

\* handle_download_command up to the while loop of
\* fetch_published_packages: either an exception ends the command or the
\* loop is entered.
CmdValidate ==
    /\ cpc = "start"
    /\ exit_error' = CmdError(args)
    /\ output_dir_made' = OutputDirReached(args)
    /\ IF CmdError(args) # ""
       THEN /\ cpc' = "exited"
            /\ UNCHANGED <<fpc, max_packages>>
       ELSE /\ cpc' = "discovering"
            /\ fpc' = "loop"
            /\ max_packages' = args.max_packages
    /\ UNCHANGED <<offset_mark, seen_offsets, packages, requested, last_page, stopped_by>>
    /\ UNCHANGED <<args, dlVars, runVars, fnVars, toolVars>>

\* Page responses tried under the command: an HTTP error, or a body with
\* at most one item under "packages" and no or a raw nextPage.
CmdPageResponses ==
    { r \in PageResponses :
        \/ r.kind = "httperror"
        \/ /\ r.kind = "ok"
           /\ r.data.packages.isList /\ Len(r.data.packages.items) <= 1
           /\ r.data.results = NotAList /\ r.data.records = NotAList
           /\ r.data.nextPage.form \in {"none", "raw"} }

CmdFetchPage == \E resp \in CmdPageResponses : FetchPage(resp)

NextCmd == CmdValidate \/ CmdFetchPage

\* ------------------------------------------------------------------------
\* Destination paths: package_collection_code, package_year_from_date and
\* the path run_download builds from them
\* ------------------------------------------------------------------------
\* In this part a string is a sequence of one-character strings.
DigitSeq == <<"0", "1", "2", "3", "4", "5", "6", "7", "8", "9">>

Digits == {DigitSeq[i] : i \in 1..10}

DigitValue(d) == (CHOOSE i \in 1..10 : DigitSeq[i] = d) - 1

\* str.isdigit(): non-empty and every character a digit.
IsDigit(s) == s # <<>> /\ \A i \in 1..Len(s) : s[i] \in Digits

\* int(s) of a string of digits.
RECURSIVE IntOf(_)
IntOf(s) ==
    IF s = <<>> THEN 0
    ELSE 10 * IntOf(SubSeq(s, 1, Len(s) - 1)) + DigitValue(s[Len(s)])

\* str(n) of a natural number: no leading zeros.
RECURSIVE StrOfInt(_)
StrOfInt(n) ==
    IF n < 10 THEN <<DigitSeq[n + 1]>>
    ELSE StrOfInt(n \div 10) \o <<DigitSeq[(n % 10) + 1]>>

\* s[:n]
Prefix(s, n) == SubSeq(s, 1, IF Len(s) < n THEN Len(s) ELSE n)

Contains(s, ch) == \E i \in 1..Len(s) : s[i] = ch

FirstIndex(s, ch) ==
    CHOOSE i \in 1..Len(s) : s[i] = ch /\ \A j \in 1..(i - 1) : s[j] # ch

\* s.split(ch)
RECURSIVE Split(_, _)
Split(s, ch) ==
    IF ~Contains(s, ch) THEN <<s>>
    ELSE <<SubSeq(s, 1, FirstIndex(s, ch) - 1)>>
         \o Split(SubSeq(s, FirstIndex(s, ch) + 1, Len(s)), ch)

StrUnknown == <<"U", "N", "K", "N", "O", "W", "N">>

UnknownYear == <<"u", "n", "k", "n", "o", "w", "n", "_", "y", "e", "a", "r">>

\* date_issued is None
NoDate == <<"None">>

\* package_collection_code: the text before the first "-", "UNKNOWN" when the
\* id has no "-".
PackageCollectionCode(package_id) ==
    IF Contains(package_id, "-")
    THEN SubSeq(package_id, 1, FirstIndex(package_id, "-") - 1)
    ELSE StrUnknown

\* A numeric strptime field: one to width digits with a value in lo..hi.
NumField(s, width, lo, hi) ==
    IsDigit(s) /\ Len(s) <= width /\ IntOf(s) >= lo /\ IntOf(s) <= hi

\* %d also takes a blank followed by one non-zero digit.
DayField(s) ==
    \/ NumField(s, 2, 1, 31)
    \/ Len(s) = 2 /\ s[1] = " " /\ s[2] \in Digits \ {"0"}

DayValue(s) == IF s[1] = " " THEN DigitValue(s[2]) ELSE IntOf(s)

IsLeap(y) == y % 4 = 0 /\ (y % 100 # 0 \/ y % 400 = 0)

DaysIn(y, m) ==
    IF m = 2 THEN (IF IsLeap(y) THEN 29 ELSE 28)
    ELSE IF m \in {4, 6, 9, 11} THEN 30 ELSE 31

\* The year strptime(s, "%Y-%m-%d") returns, 0 when it raises ValueError:
\* %Y is exactly four digits, and datetime wants a year from 1 on and a day
\* the month has.
StrptimeDate(s) ==
    LET f == Split(s, "-") IN
    IF /\ Len(f) = 3
       /\ Len(f[1]) = 4 /\ IsDigit(f[1]) /\ IntOf(f[1]) >= 1
       /\ NumField(f[2], 2, 1, 12)
       /\ DayField(f[3])
       /\ DayValue(f[3]) <= DaysIn(IntOf(f[1]), IntOf(f[2]))
    THEN IntOf(f[1]) ELSE 0

\* "%H:%M:%S"; a second of 60 or 61 matches %S but datetime refuses it.
TimeOk(t) ==
    LET f == Split(t, ":") IN
    /\ Len(f) = 3
    /\ NumField(f[1], 2, 0, 23)
    /\ NumField(f[2], 2, 0, 59)
    /\ NumField(f[3], 2, 0, 59)

\* strptime(s, "%Y-%m-%dT%H:%M:%S" + ("Z" if zulu else "")).
StrptimeDateTime(s, zulu) ==
    LET f == Split(s, "T")
        t == IF Len(f) = 2 THEN f[2] ELSE <<>>
    IN
    IF /\ Len(f) = 2
       /\ IF zulu
          THEN t # <<>> /\ t[Len(t)] = "Z" /\ TimeOk(SubSeq(t, 1, Len(t) - 1))
          ELSE TimeOk(t)
    THEN StrptimeDate(f[1]) ELSE 0

\* The formats package_year_from_date tries, in its order.
Strptime(s, k) ==
    IF k = 1 THEN StrptimeDate(s)
    ELSE IF k = 2 THEN StrptimeDateTime(s, TRUE)
    ELSE StrptimeDateTime(s, FALSE)

\* package_year_from_date
PackageYearFromDate(date_issued) ==
    IF date_issued = NoDate \/ date_issued = <<>> THEN UnknownYear
    ELSE LET s == Prefix(date_issued, 19)
             hits == {k \in 1..3 : Strptime(s, k) # 0}
             first == CHOOSE k \in hits : \A j \in hits : k <= j
         IN
         IF hits # {} THEN StrOfInt(Strptime(s, first))
         ELSE IF IsDigit(Prefix(date_issued, 4)) THEN Prefix(date_issued, 4)
         ELSE UnknownYear

OutputRoot == <<"o", "u", "t">>

\* pathlib's "/" on relative segments: an empty segment adds nothing.
PathJoin(root, segments) ==
    <<root>> \o SelectSeq(segments, LAMBDA g : g # <<>>)

\* dest in run_download
DestinationPath(package_id, date_issued, fmt) ==
    PathJoin(OutputRoot,
             <<PackageCollectionCode(package_id),
               PackageYearFromDate(date_issued),
               package_id \o <<".">> \o fmt>>)

IdAlphabet == {"B", "-", "1"}

ExampleId == <<"B", "I", "L", "L", "S", "-", "1", "1", "6", "h", "r", "3", "4", "e", "n", "r">>

\* package ids: non-empty (discovery drops records without an id).
PathIds == (SeqsUpTo(IdAlphabet, MaxIdLen) \ {<<>>}) \cup {ExampleId}

PathDates ==
    { NoDate,
      <<>>,
      <<"2", "0", "1", "9", "-", "0", "5", "-", "0", "1">>,
      <<"2", "0", "1", "9", "-", "5", "-", "1">>,
      <<"2", "0", "1", "9", "-", "0", "5", "-", "0", "1", "T", "1", "0", ":", "2", "0", ":", "3", "0", "Z">>,
      <<"2", "0", "1", "9", "-", "0", "5", "-", "0", "1", "T", "1", "0", ":", "2", "0", ":", "3", "0">>,
      <<"2", "0", "1", "9", "-", "0", "5", "-", "0", "1", "T", "1", "0", ":", "2", "0", ":", "3", "0", ".", "0", "0", "0", "Z">>,
      <<"2", "0", "1", "9">>,
      <<"2", "0", "1", "9", "0", "5", "0", "1">>,
      <<"2", "0", "1", "9", "-", "1", "3", "-", "4", "5">>,
      <<"2", "0", "1", "9", "-", "0", "2", "-", "2", "9">>,
      <<"2", "0", "2", "0", "-", "0", "2", "-", "2", "9">>,
      <<"2", "0", "1", "9", "/", "0", "5", "/", "0", "1">>,
      <<"M", "a", "y", " ", "1", ",", " ", "2", "0", "1", "9">>,
      <<"1", "9", "-", "0", "5", "-", "0", "1">>,
      <<"0", "0", "1", "9", "-", "0", "5", "-", "0", "1">>,
      <<"0", "0", "0", "0", "-", "0", "1", "-", "0", "1">>,
      <<"2", "0", "1">> }

PathFormats == {<<"p", "d", "f">>, <<"x", "m", "l">>}

IdlePath == pathCall = [pc |-> "idle"]

\* The arguments of one call; dest is not computed yet.
InitPath ==
    pathCall \in [pc : {"call"}, package_id : PathIds, date_issued : PathDates,
                  fmt : PathFormats, dest : {<<>>}]

DestinationCall ==
    /\ pathCall.pc = "call"
    /\ pathCall' = [pathCall EXCEPT
                      !.pc = "done",
                      !.dest = DestinationPath(pathCall.package_id,
                                               pathCall.date_issued, pathCall.fmt)]
    /\ UNCHANGED pathOthers

\* ------------------------------------------------------------------------
\* Extension installer: load_state, save_state, extension_needs_install,
\* install_extension and sync_extensions (gemini_extension_installer.py)
\* ------------------------------------------------------------------------
ExtOrder == <<"ext-1", "ext-2", "ext-3", "ext-4">>      \* in sort order

ExtIds == {ExtOrder[i] : i \in 1..MaxExts}

Versions == {"1.0.0", "1.1.0"}

\* What a state dict holds under an extension id: a dict with a version
\* (the entry sync_extensions writes), a value that is not a dict, or nothing.
DictEntry(v) == [dict |-> TRUE, version |-> v]

NonDictEntry == [dict |-> FALSE, version |-> "not a dict"]

Absent == [dict |-> FALSE, version |-> "absent"]

Entries == {DictEntry(v) : v \in Versions} \cup {NonDictEntry}

\* State dicts, as functions on the ids; Absent marks a key the dict lacks.
States == [ExtIds -> Entries \cup {Absent}]

EmptyState == [i \in ExtIds |-> Absent]

Keys(s) == {i \in ExtIds : s[i] # Absent}

\* The text of a JSON document, as a sequence of tokens.
Tok(t, k, e) == [t |-> t, k |-> k, dict |-> e.dict, version |-> e.version]

OpenTok == Tok("{", "", Absent)

CloseTok == Tok("}", "", Absent)

ListTok == Tok("[]", "", Absent)

SortedKeys(s) == SelectSeq(SubSeq(ExtOrder, 1, MaxExts), LAMBDA i : i \in Keys(s))

RECURSIVE Members(_, _)
Members(s, ks) ==
    IF ks = <<>> THEN <<>>
    ELSE <<Tok("key", Head(ks), Absent), Tok("value", "", s[Head(ks)])>>
         \o Members(s, Tail(ks))

\* json.dump(state, f, indent=2, sort_keys=True)
JsonDump_Unterminated(s) == <<OpenTok>> \o Members(s, SortedKeys(s))

JsonDump(s) == <<OpenTok>> \o Members(s, SortedKeys(s)) \o <<CloseTok>>

\* The text is a complete JSON object.
IsObjectText(text) ==
    /\ Len(text) >= 2 /\ Len(text) % 2 = 0
    /\ text[1] = OpenTok /\ text[Len(text)] = CloseTok
    /\ \A i \in 2..(Len(text) - 1) :
          text[i].t = (IF i % 2 = 0 THEN "key" ELSE "value")

\* json.load accepts the text: an object, or a document of another type.
IsJson(text) == IsObjectText(text) \/ text = <<ListTok>>

\* json.load of an object: the last member of a key wins.
JsonLoadObject(text) ==
    [i \in ExtIds |->
        LET hits == {j \in 2..(Len(text) - 1) : text[j].t = "key" /\ text[j].k = i}
            last == CHOOSE j \in hits : \A h \in hits : h <= j
        IN IF hits = {} THEN Absent
           ELSE [dict |-> text[last + 1].dict, version |-> text[last + 1].version]]

NoStateFile == [exists |-> FALSE, text |-> <<>>]

File(text) == [exists |-> TRUE, text |-> text]

\* load_state: {} for a missing file, for text json.load refuses (the
\* except branch) and for a document that is not an object.
LoadState(f) ==
    IF ~f.exists THEN EmptyState
    ELSE IF ~IsJson(f.text) THEN EmptyState
    ELSE IF ~IsObjectText(f.text) THEN EmptyState
    ELSE JsonLoadObject(f.text)

\* The marketplace offers every extension at the newer version.
LatestVersion == "1.1.0"

Extensions == [id : ExtIds, version : {LatestVersion}]

\* extension_needs_install
ExtensionNeedsInstall(ext, s) ==
    IF ~s[ext.id].dict THEN TRUE ELSE s[ext.id].version # ext.version

\* What install_extension can do: nothing in a dry run; else the command
\* runs and exits 0, exits non-zero, or subprocess.run raises.
InstallResults(dry) ==
    IF dry THEN {"dry_run"} ELSE {"installed", "nonzero", "exception"}

\* install_extension returned True.
InstallSuccess(r) == r \in {"dry_run", "installed"}

\* The filtered marketplace listing: each id at most once.
TargetLists ==
    { t \in SeqsUpTo(Extensions, MaxExts) :
        \A i, j \in 1..Len(t) : i # j => t[i].id # t[j].id }

\* State files found on disk: none, an empty file, a JSON list, a document
\* cut short, and every state save_state can have written.
StateFiles ==
    {NoStateFile, File(<<>>), File(<<ListTok>>),
     File(<<OpenTok, Tok("key", ExtOrder[1], Absent)>>)}
    \cup {File(JsonDump(s)) : s \in States}

IdleInst == installer = [pc |-> "idle"]

\* The fields at the start of a call: nothing installed, counted or saved.
Fresh(pc, f, s, dry, targets) ==
    [pc |-> pc, state_file |-> f, tmp_file |-> NoStateFile, file0 |-> f,
     state |-> s, loaded |-> EmptyState, dry_run |-> dry,
     target_extensions |-> targets, ti |-> 0,
     installed_count |-> 0, skipped_count |-> 0, failed_count |-> 0,
     commands |-> <<>>, outcomes |-> <<>>, save_outcome |-> "none"]

\* sync_extensions is called, after fetch_extensions and filter_extensions
\* gave the targets.
InitSync ==
    \E f \in StateFiles, dry \in BOOLEAN, targets \in TargetLists :
        installer = Fresh("start", f, EmptyState, dry, targets)

\* save_state(path, state) or load_state(path) is called on its own.
InitState ==
    \/ \E f \in StateFiles, s \in States :
          installer = Fresh("save_state", f, s, FALSE, <<>>)
    \/ \E f \in StateFiles :
          installer = Fresh("load_state", f, EmptyState, FALSE, <<>>)

\* state = load_state(config.state_file)
SyncLoad ==
    /\ installer.pc = "start"
    /\ installer' = [installer EXCEPT
                       !.state = LoadState(installer.state_file),
                       !.ti = 1,
                       !.pc = "loop"]
    /\ UNCHANGED instOthers

\* The entry sync_extensions records for an installed extension.
Recorded_Always(s, ext, success) ==
    [s EXCEPT ![ext.id] = DictEntry(ext.version)]

Recorded(s, ext, success) ==
    IF success THEN [s EXCEPT ![ext.id] = DictEntry(ext.version)] ELSE s

\* One pass of the loop over target_extensions.
SyncExtension ==
    /\ installer.pc = "loop"
    /\ installer.ti <= Len(installer.target_extensions)
    /\ LET ext == installer.target_extensions[installer.ti] IN
       IF ~ExtensionNeedsInstall(ext, installer.state)
       THEN installer' = [installer EXCEPT
                            !.skipped_count = @ + 1,
                            !.outcomes = Append(@, "skipped"),
                            !.ti = @ + 1]
       ELSE \E r \in InstallResults(installer.dry_run) :
            installer' = [installer EXCEPT
                            !.commands = IF r = "dry_run" THEN @ ELSE Append(@, ext.id),
                            !.outcomes = Append(@, r),
                            !.state = Recorded(@, ext, InstallSuccess(r)),
                            !.installed_count = @ + (IF InstallSuccess(r) THEN 1 ELSE 0),
                            !.failed_count = @ + (IF InstallSuccess(r) THEN 0 ELSE 1),
                            !.ti = @ + 1]
    /\ UNCHANGED instOthers

\* The loop is over: save_state(config.state_file, state) is called.
SyncSave ==
    /\ installer.pc = "loop"
    /\ installer.ti > Len(installer.target_extensions)
    /\ installer' = [installer EXCEPT !.pc = "save_state"]
    /\ UNCHANGED instOthers

\* save_state, first statement: path.parent.mkdir(parents=True,
\* exist_ok=True), outside the try. An OSError leaves save_state.
SaveMkdir ==
    /\ installer.pc = "save_state"
    /\ \E ok \in BOOLEAN :
        installer' = [installer EXCEPT
                        !.pc = IF ok THEN "save_write" ELSE "raised",
                        !.save_outcome = IF ok THEN @ ELSE "raised"]
    /\ UNCHANGED instOthers

\* save_state, the with block: the temporary file is opened for writing and
\* json.dump writes the document. The open can fail, the write can fail
\* part-way (both caught by the except) and the process can be stopped
\* part-way.
SaveWriteTmp ==
    /\ installer.pc = "save_write"
    /\ LET text == JsonDump(installer.state) IN
       \E how \in {"written", "open_failed", "write_failed", "stopped"} :
       \E n \in 0..Len(text) :
        /\ how = "written" => n = Len(text)
        /\ how = "open_failed" => n = 0
        /\ how \in {"write_failed", "stopped"} => n < Len(text)
        /\ installer' = [installer EXCEPT
              !.tmp_file = IF how = "open_failed" THEN @ ELSE File(Prefix(text, n)),
              !.pc = IF how = "written" THEN "save_replace"
                     ELSE IF how = "stopped" THEN "stopped" ELSE "saved",
              !.save_outcome = IF how = "written" THEN @
                               ELSE IF how = "stopped" THEN "stopped" ELSE "failed"]
    /\ UNCHANGED instOthers

\* save_state: tmp_path.replace(path), one rename; when it fails the except
\* logs the error and save_state returns.
SaveReplace ==
    /\ installer.pc = "save_replace"
    /\ \E ok \in BOOLEAN :
        installer' = [installer EXCEPT
                        !.state_file = IF ok THEN installer.tmp_file ELSE @,
                        !.tmp_file = IF ok THEN NoStateFile ELSE @,
                        !.save_outcome = IF ok THEN "ok" ELSE "failed",
                        !.pc = "saved"]
    /\ UNCHANGED instOthers

\* sync_extensions after save_state returned: the summary, then
\* SystemExit(1) when an install failed.
SyncEnd ==
    /\ installer.pc = "saved"
    /\ installer' = [installer EXCEPT
                       !.pc = IF installer.failed_count > 0 THEN "exit1" ELSE "done"]
    /\ UNCHANGED instOthers

\* load_state(path), on its own or after save_state returned.
LoadCall ==
    /\ installer.pc \in {"load_state", "saved"}
    /\ installer' = [installer EXCEPT
                       !.loaded = LoadState(installer.state_file),
                       !.pc = "loaded"]
    /\ UNCHANGED instOthers

NextSync == SyncLoad \/ SyncExtension \/ SyncSave \/ SaveMkdir \/ SaveWriteTmp \/ SaveReplace \/ SyncEnd

NextState == SaveMkdir \/ SaveWriteTmp \/ SaveReplace \/ LoadCall

\* ------------------------------------------------------------------------
\* Journal: log_journal_entry (journaling_tool_example.py)
\* ------------------------------------------------------------------------
Sessions == {"TEST-SESSION", "S2"}

BaseDir == "journals"

\* path = journals_dir / f"JOURNAL_{session_id}.md"
JournalPath(base_dir, session_id) ==
    [dir |-> base_dir, name |-> <<"JOURNAL_", session_id, ".md">>]

JournalPaths == {JournalPath(BaseDir, s) : s \in Sessions}

NoJournalPath == [dir |-> "", name |-> <<>>]

\* One string handed to writelines.
Chunk(kind, lines) == [kind |-> kind, lines |-> lines]

\* Arguments of a call besides session_id and base_dir; confidence is the
\* formatted number, or None.
JournalArgs ==
    { [summary |-> "Test entry", user_prompt |-> "", actions |-> <<>>,
       files_touched |-> <<>>, confidence |-> None],
      [summary |-> "Second entry", user_prompt |-> "", actions |-> <<>>,
       files_touched |-> <<>>, confidence |-> None],
      [summary |-> "Test entry", user_prompt |-> "do it", actions |-> <<"ran tests">>,
       files_touched |-> <<>>, confidence |-> None],
      [summary |-> "", user_prompt |-> "", actions |-> <<>>,
       files_touched |-> <<"a.py", "b.py">>, confidence |-> "87.5"] }

\* The list body of log_journal_entry.
JournalBody(a) ==
    <<Chunk("header", <<>>)>>
    \o (IF a.user_prompt # "" THEN <<Chunk("prompt", <<a.user_prompt>>)>> ELSE <<>>)
    \o <<Chunk("summary", <<a.summary>>)>>
    \o (IF a.actions # <<>> THEN <<Chunk("actions", a.actions)>> ELSE <<>>)
    \o (IF a.files_touched # <<>> THEN <<Chunk("files", a.files_touched)>> ELSE <<>>)
    \o (IF a.confidence # None THEN <<Chunk("confidence", <<a.confidence>>)>> ELSE <<>>)

\* path.open("a") and f.writelines(body): the file is created when missing
\* and the body goes after what it holds.
JournalWrite_Truncating(old, body) == body

JournalWrite(old, body) == old \o body

\* A journal left by an earlier process.
EarlierJournal == <<Chunk("header", <<>>), Chunk("summary", <<"Earlier entry">>)>>

\* The content of a file that does not exist yet is the empty sequence.
JournalExists(p) == journal.files[p] # <<>>

IdleJournal == journal = [pc |-> "idle"]

\* Before the first call: each journal is missing or was started earlier;
\* calls is the history of session_id and summary of the calls, path the
\* path the last call returned.
InitJournal ==
    \E held \in [JournalPaths -> {<<>>, EarlierJournal}] :
        journal = [pc |-> "ready", files |-> held, calls |-> <<>>,
                   path |-> NoJournalPath]

LogJournalEntry ==
    /\ journal.pc = "ready"
    /\ Len(journal.calls) < MaxEntries
    /\ \E session_id \in Sessions, a \in JournalArgs :
        LET p == JournalPath(BaseDir, session_id) IN
        journal' = [journal EXCEPT
                      !.files[p] = JournalWrite(@, JournalBody(a)),
                      !.calls = Append(@, [session_id |-> session_id,
                                           summary |-> a.summary]),
                      !.path = p]
    /\ UNCHANGED journalOthers

\* ------------------------------------------------------------------------
\* SQL ingest: fetch_packages_for_collection (govinfo_sql_ingest.py)
\* ------------------------------------------------------------------------
\* Text is a sequence of pieces here. The nextPage values of a page: absent
\* or empty, a raw cursor, a URL that ends in offsetMark=<cursor>, a URL with
\* a parameter after the cursor, and a URL without offsetMark.
PageSizeParam == "&pageSize=500"

IngestNextPages ==
    { <<>> }
    \cup { <<m>> : m \in Marks }
    \cup { <<"https://api/published?", "offsetMark=", m>> : m \in Marks }
    \cup { <<"https://api/published?", "offsetMark=", m, PageSizeParam>> : m \in Marks }
    \cup { <<"https://api/published?pageSize=500">> }

IngestIds == {"BILLS-1", "CREC-2"}

IngestLists == SeqsUpTo(IngestIds, 1)

\* What get_json comes back with: an exception (HTTP error, connection
\* error, undecodable body), or the decoded object.
IngestResponses ==
    { [kind |-> "error", packages |-> <<>>, results |-> <<>>, nextPage |-> <<>>] }
    \cup { [kind |-> "ok", packages |-> p, results |-> r, nextPage |-> n] :
             p \in IngestLists, r \in IngestLists, n \in IngestNextPages }

\* "offsetMark=" in nxt
HasOffsetMark(nxt) == \E i \in 1..Len(nxt) : nxt[i] = "offsetMark="

\* nxt.split("offsetMark=")[-1] when the text is there, else nxt itself
IngestNextOffset(nxt) ==
    IF HasOffsetMark(nxt)
    THEN LET at == CHOOSE i \in 1..Len(nxt) :
                      nxt[i] = "offsetMark=" /\ \A j \in (i + 1)..Len(nxt) : nxt[j] # "offsetMark="
         IN SubSeq(nxt, at + 1, Len(nxt))
    ELSE nxt

\* all_items.append(...) for each item; only the first MaxIngested entries
\* of the list are kept in the model.
Ingested(have, items) == Prefix(have \o items, MaxIngested)

IdleIngest == ingest = [pc |-> "idle"]

\* offset = "*", all_items = []; offsets_sent is the history of the
\* offsetMark values requested.
InitIngest ==
    ingest = [pc |-> "loop", offset |-> <<Sentinel>>, all_items |-> <<>>,
              offsets_sent |-> {}]

\* One pass of the while True loop.
IngestPage(resp) ==
    /\ ingest.pc = "loop"
    /\ LET items == IF resp.packages # <<>> THEN resp.packages ELSE resp.results
           sent == ingest.offsets_sent \cup {ingest.offset}
       IN
       IF resp.kind = "error"
       THEN ingest' = [ingest EXCEPT !.pc = "raised", !.offsets_sent = sent]
       ELSE IF items = <<>>
       THEN ingest' = [ingest EXCEPT !.pc = "returned", !.offsets_sent = sent]
       ELSE IF resp.nextPage = <<>>
       THEN ingest' = [ingest EXCEPT
                         !.pc = "returned",
                         !.offsets_sent = sent,
                         !.all_items = Ingested(@, items)]
       ELSE ingest' = [ingest EXCEPT
                         !.offsets_sent = sent,
                         !.all_items = Ingested(@, items),
                         !.offset = IngestNextOffset(resp.nextPage)]
    /\ UNCHANGED ingestOthers

NextIngest == \E resp \in IngestResponses : IngestPage(resp)

\* ------------------------------------------------------------------------
\* Rate limiting: RateLimitPolicy.allow (rate_limit_policy.py)
\* ------------------------------------------------------------------------
\* Token counts are kept in sixtieths of a token and the clock in whole
\* seconds, so that elapsed * (max_requests_per_minute / 60.0) is exact.
TokenUnit == 60

\* The clock readings tried are multiples of ClockStep seconds.
ClockStep == 20

ClockReadings == {k * ClockStep : k \in 0..MaxClock}

MinOf(a, b) == IF a < b THEN a ELSE b

\* Lines 17-19: a _last_refill of 0.0 marks a bucket that was never used;
\* it is then filled and stamped with the reading.
Stamp(now, stamp) == IF stamp = 0 THEN now ELSE stamp

Filled(now, stamp, count, rate) == IF stamp = 0 THEN rate * TokenUnit ELSE count

\* Lines 22-24: the refill for the time elapsed, capped at the maximum.
Refilled(now, stamp, count, rate) ==
    MinOf(rate * TokenUnit, count + (now - stamp) * rate)

IdleBucket == bucket = [pc |-> "idle"]

\* RateLimitPolicy(max_requests_per_minute=n): tokens is _tokens in
\* sixtieths, last_refill is _last_refill in seconds. History: clock is the
\* last reading of time.time(), calls the number of allow() calls,
\* allowed_now the calls allowed at the current reading, before the tokens
\* of the last call after its refill, last_allow what it returned.
InitBucket ==
    \E n \in 0..MaxRate :
        bucket = [pc |-> "ready", max_requests_per_minute |-> n,
                  tokens |-> 0, last_refill |-> 0,
                  clock |-> 0, calls |-> 0, allowed_now |-> 0, before |-> 0,
                  last_allow |-> "none"]

\* allow(), with time.time() reading now.
Allow(now) ==
    /\ bucket.pc = "ready"
    /\ bucket.calls < MaxCalls
    /\ now >= bucket.clock
    /\ LET rate == bucket.max_requests_per_minute
           stamp == Stamp(now, bucket.last_refill)
           count == Filled(now, bucket.last_refill, bucket.tokens, rate)
           have == Refilled(now, stamp, count, rate)
           so_far == IF now = bucket.clock /\ bucket.calls > 0
                     THEN bucket.allowed_now ELSE 0
       IN bucket' = [bucket EXCEPT
                       !.before = have,
                       !.last_refill = now,
                       !.tokens = IF have >= TokenUnit THEN have - TokenUnit ELSE have,
                       !.last_allow = IF have >= TokenUnit THEN "True" ELSE "False",
                       !.allowed_now = so_far + (IF have >= TokenUnit THEN 1 ELSE 0),
                       !.clock = now,
                       !.calls = @ + 1]
    /\ UNCHANGED bucketOthers

NextBucket == \E now \in ClockReadings : Allow(now)

\* The other scripts at rest, all of them and all but one.
IdleTools == IdlePath /\ IdleInst /\ IdleJournal /\ IdleIngest /\ IdleBucket
IdleCore == IdleFetch /\ IdleDl /\ IdleRun /\ IdleCmd /\ IdleFn
OnlyPath == IdleCore /\ IdleInst /\ IdleJournal /\ IdleIngest /\ IdleBucket
OnlyInst == IdleCore /\ IdlePath /\ IdleJournal /\ IdleIngest /\ IdleBucket
OnlyJournal == IdleCore /\ IdlePath /\ IdleInst /\ IdleIngest /\ IdleBucket
OnlyIngest == IdleCore /\ IdlePath /\ IdleInst /\ IdleJournal /\ IdleBucket
OnlyBucket == IdleCore /\ IdlePath /\ IdleInst /\ IdleJournal /\ IdleIngest

vars == <<fetchVars, dlVars, runVars, cmdVars, fnVars, toolVars>>

\* ------------------------------------------------------------------------
\* Specifications
\* ------------------------------------------------------------------------
FetchCall == InitFetch /\ IdleDl /\ IdleRun /\ IdleCmd /\ IdleFn /\ IdleTools

SpecFetch == FetchCall /\ [][NextFetch]_vars

\* The loop of fetch_published_packages is sequential code: it keeps running.
FairSpecFetch == SpecFetch /\ WF_vars(NextFetch)

DlCall == InitDl /\ IdleFetch /\ IdleRun /\ IdleCmd /\ IdleFn /\ IdleTools

SpecDl == DlCall /\ [][NextDl]_vars

RunCall == InitRun /\ IdleDl /\ IdleCmd /\ IdleFn /\ IdleTools

SpecRun == RunCall /\ [][NextRun]_vars

\* The download command, from its call until discovery returns.
CmdCall == InitCmd /\ IdleFetch /\ IdleDl /\ IdleRun /\ IdleFn /\ IdleTools

SpecCmd == CmdCall /\ [][NextCmd]_vars

\* next_offset_from_nextpage called on its own, on each of NextPageArgs.
NextOffsetArgs == InitFn /\ IdleFetch /\ IdleDl /\ IdleRun /\ IdleCmd /\ IdleTools

SpecNextOffset == NextOffsetArgs /\ [][NextOffsetCall]_vars

\* The destination of one (record, format) pair, on each of the inputs.
PathArgs == InitPath /\ OnlyPath

SpecPath == PathArgs /\ [][DestinationCall]_vars

\* One run of sync_extensions, from load_state to its return or exit.
SyncCall == InitSync /\ OnlyInst

SpecSync == SyncCall /\ [][NextSync]_vars

\* save_state followed by load_state, or load_state alone, on one path.
StateCall == InitState /\ OnlyInst

SpecState == StateCall /\ [][NextState]_vars

\* Calls of log_journal_entry, one after the other.
JournalCalls == InitJournal /\ OnlyJournal

SpecJournal == JournalCalls /\ [][LogJournalEntry]_vars

\* One call of fetch_packages_for_collection.
IngestCall == InitIngest /\ OnlyIngest

SpecIngest == IngestCall /\ [][NextIngest]_vars

\* The loop is sequential code: it keeps running.
FairSpecIngest == SpecIngest /\ WF_vars(NextIngest)

\* allow() calls on one policy, with clock readings that never go back.
BucketCalls == InitBucket /\ OnlyBucket

SpecBucket == BucketCalls /\ [][NextBucket]_vars

\* ========================================================================
\* Claims about fetch_published_packages
\* ========================================================================

\* C1: no two page requests of one call carry the same offsetMark value
\* (the cycle guard stops discovery before a cursor is requested again,
\* the initial "*" included).
C1_NoRepeatedOffsetMark ==
    \A i, j \in DOMAIN requested : i # j => requested[i] # requested[j]

\* C2: every loop iteration either exits or adds a cursor never seen before
\* to the history set, and the call eventually returns.
C2_Terminates ==
    /\ [][ \/ fpc' = "returned"
           \/ /\ offset_mark' \notin seen_offsets
              /\ seen_offsets' = seen_offsets \cup {offset_mark'} ]_vars
    /\ <>(fpc = "returned")

\* C2 witness: the call returned after the server led it through every
\* cursor value and back to one already used.

C2_Witness ==
    /\ fpc = "returned"
    /\ seen_offsets = Marks
    /\ Len(requested) = Cardinality(Marks) + 1

\* C3: with a cap that is not None the call never holds more than
\* max_packages records.
C3_CapRespected ==
    max_packages # NoLimit => Len(packages) <= max_packages[1]

\* ========================================================================
\* Claims about download_with_retries
\* ========================================================================
IsGood503(a) ==
    a.kind = "response" /\ a.status = 503 /\ ~RetryAfterRaises(a.retry_after)

Is200(a) == a.kind = "response" /\ a.status = 200

IsPlainHttpError(a) == a.kind = "response" /\ a.status \in {404, 500}

\* The chunks of a body that are written (keep-alive chunks are dropped).
Written(body) == SelectSeq(body, LAMBDA c : c # "")

\* The call has met a broken body stream or a failing file operation.
Faulted == faults # <<>>

\* C4: when the first k answers are 503 (k <= max_retries) there have been
\* exactly k sleeps, of the Retry-After seconds or 30 each, k attempts are
\* used and the call goes on to request k+1; when that request is answered
\* 200 (and body and file operations do not fail) no further request or
\* sleep follows and the call returns True.
C4_Retry503 ==
    \A k \in 0..Len(answers) :
        (k <= max_retries /\ \A i \in 1..k : IsGood503(answers[i])) =>
            /\ Len(sleeps) >= k
            /\ \A i \in 1..k : sleeps[i] = (IF answers[i].retry_after.kind = "absent"
                                             THEN 30 ELSE answers[i].retry_after.secs)
            /\ Len(answers) = k => (dpc = "loop" /\ attempt = k /\ Len(sleeps) = k)
            /\ (Len(answers) > k /\ Is200(answers[k + 1]) /\ ~Faulted) =>
                  /\ Len(answers) = k + 1
                  /\ Len(sleeps) = k
                  /\ dpc \in {"streaming", "returned"}
                  /\ dpc = "returned" => result = "True"

\* C4 witness: 503 with Retry-After 2, 503 without header, then 200: True
\* after three requests and sleeps of 2 and 30 seconds.
C4_Witness ==
    /\ dpc = "returned" /\ result = "True"
    /\ max_retries = 2
    /\ Len(answers) = 3
    /\ answers[1].status = 503 /\ answers[1].retry_after = [kind |-> "int", secs |-> 2]
    /\ answers[2].status = 503 /\ answers[2].retry_after = NoHeader
    /\ sleeps = <<2, 30>>

\* C5: when every attempt is answered with a non-503 HTTP error the call
\* keeps going until max_retries + 1 requests are made, then returns False.
C5_Exhaustion ==
    (\A i \in DOMAIN answers : IsPlainHttpError(answers[i])) =>
        IF Len(answers) <= max_retries
        THEN dpc = "loop"
        ELSE Len(answers) = max_retries + 1 /\ dpc = "returned" /\ result = "False"

\* C5 witness: max_retries = 2, three answers 500, False.
C5_Witness ==
    /\ dpc = "returned" /\ result = "False"
    /\ max_retries = 2
    /\ Len(answers) = 3
    /\ \A i \in 1..3 : answers[i].status = 500

\* C6 as stated: one call issues at most max_retries requests.
C6_AtMostMaxRetriesRequests == Len(answers) <= max_retries

\* C6 amended: one call issues at most max_retries + 1 requests, whatever
\* the mix of 503 answers, HTTP errors, timeouts and connection failures.
C6_AtMostMaxRetriesPlusOne == Len(answers) <= max_retries + 1

\* C6 witness: a call that used max_retries + 1 requests on a mix of a 503,
\* a timeout and an HTTP error.
C6_Witness ==
    /\ dpc = "returned"
    /\ max_retries = 2
    /\ Len(answers) = max_retries + 1
    /\ \E i, j, k \in DOMAIN answers :
          answers[i].status = 503 /\ answers[j].kind = "timeout" /\ answers[k].status = 500

\* C7: the call never ends by propagating an exception.
C7_NeverRaises == dpc # "raised"

\* C8: True is returned only when the last attempt was answered with a
\* non-error, non-503 status, its whole stream was consumed and written to
\* the destination (opened truncated by that attempt) and the handle closed.
C8_TrueOnlyIfComplete ==
    result = "True" =>
        /\ answers # <<>>
        /\ LET last == answers[Len(answers)]
           IN  /\ last.kind = "response"
               /\ ~IsHttpError(last.status) /\ last.status # 503
               /\ dest = [exists |-> TRUE, content |-> Written(last.body)]
        /\ stream = <<>>
        /\ ~fh_open

\* C8 witness: an attempt broke part-way through a two-chunk body, the next
\* one delivered a one-chunk body in full over a destination that already
\* existed: True, and the file holds the last body only.
C8_Witness ==
    /\ result = "True"
    /\ Len(answers) = 2
    /\ Is200(answers[1]) /\ answers[1].body = <<"x", "x">>
    /\ Is200(answers[2]) /\ answers[2].body = <<"x">>
    /\ dest.content = <<"x">>

\* ========================================================================
\* Claims about the driver
\* ========================================================================
RunEnded == rpc \in {"done", "aborted"}

\* C9: whatever enrichments and downloads fail, when the run ends a summary
\* request has been issued for every discovered record, in order.
C9_EveryRecordEnriched ==
    RunEnded => enriched = [i \in 1..Len(packages) |-> i]

\* The detail document of a record resolves a URL for the format fmt.
Resolves(summary, fmt) ==
    /\ summary.kind = "object"
    /\ summary.download.kind = "links"
    /\ Truthy(LinkKey(fmt))
    /\ Truthy(LinkOf(summary.download, LinkKey(fmt)))

\* C10: under dry_run no asset request is made and no destination file is
\* created, and when the run ends the planned download of every discovered
\* record and requested format that its detail document resolves is logged.
C10_DryRun ==
    dry_run =>
        /\ dpc = "idle" /\ answers = <<>> /\ dispatched = <<>>
        /\ files = {}
        /\ RunEnded =>
              \A i \in 1..Len(packages) : \A k \in DOMAIN fmt_list :
                  Resolves(summaries[i], fmt_list[k]) =>
                      \E e \in DOMAIN log :
                          /\ log[e].msg = "dry_run"
                          /\ log[e].idx = i
                          /\ log[e].fmt = fmt_list[k]
                          /\ log[e].url = LinkOf(summaries[i].download, LinkKey(fmt_list[k]))

\* ========================================================================
\* Further claims about fetch_published_packages
\* ========================================================================
\* C11: a page request that fails (connection error, timeout, HTTP error
\* status, undecodable body) ends the call at once: it returns, without
\* raising, exactly the records accumulated before that request, and the
\* failing request is the last one (the page is not requested again).
C11_PageFailureEndsGracefully ==
    [][ last_page'.kind \in FailureKinds =>
            /\ fpc' = "returned"
            /\ packages' = packages
            /\ requested' = Append(requested, offset_mark) ]_vars

\* C11 witness: the second page request met an HTTP error status after the
\* first page had delivered records; the call returned them.
C11_Witness ==
    /\ fpc = "returned"
    /\ last_page.kind = "httperror"
    /\ Len(requested) = 2
    /\ Len(packages) >= 1

\* C12: the loop concludes "no more results" only when no known key of the
\* page holds any item; a page holding a non-empty list under some known
\* key is never taken for the end of the results.
C12_NoMoreResultsOnlyWhenNoItems ==
    stopped_by = "no_more_results" => last_page.listed = <<>>

\* The records a page's items contribute: one per item that has an
\* identifier, in page order.
RecordsOf(items) ==
    LET kept == SelectSeq(items, LAMBDA it : Truthy(PkgId(it)))
    IN  [i \in 1..Len(kept) |-> PackageRecord(kept[i])]

\* C13: with no cap, a page of N items of which k lack an identifier adds
\* exactly the N - k records of the others, in page order, and the
\* skipped items do not end pagination (a page that lists items ends it
\* only for want of a usable next cursor).
C13_MissingIdentifierSkip ==
    [][ (max_packages = NoLimit /\ last_page'.kind = "ok" /\ requested' # requested) =>
            /\ packages' = packages \o RecordsOf(last_page'.listed)
            /\ last_page'.listed # <<>> =>
                   stopped_by' \in {"", "no_next_page", "repeated_offset"} ]_vars

\* ========================================================================
\* Further claims about the driver
\* ========================================================================
\* Number of records the for loop of the run has entered.
Entered == IF rpc \in {"record", "done"} THEN idx - 1 ELSE idx

EnrichmentFailed(i) == summaries[i].kind \in {"error", "badjson"}

\* C14: every record the run has entered got exactly one summary request
\* (none is repeated), and for a record whose summary request failed or
\* whose body was not JSON no download is dispatched, no asset request is
\* made and no destination file exists.
C14_OneSummaryRequestNoDownloadOnFailure ==
    /\ enriched = [i \in 1..Entered |-> i]
    /\ \A i \in 1..Len(enriched) :
          EnrichmentFailed(i) =>
              /\ \A d \in DOMAIN dispatched : dispatched[d][1] # i
              /\ \A f \in files : f.path.package_id # packages[i].package_id
              /\ (idx = i => rpc \notin {"formats", "downloading"})

\* C14 witness: of two records the first one's summary request failed and
\* the second one's asset was downloaded; the run is done.
C14_Witness ==
    /\ rpc = "done"
    /\ Len(packages) = 2
    /\ summaries[1].kind = "error"
    /\ enriched = <<1, 2>>
    /\ dispatched # <<>>
    /\ files # {}

\* ========================================================================
\* Claims about the command line
\* ========================================================================
\* The configuration errors of C15, read off the arguments.
ConfigError(a) ==
    \/ ~Truthy(OrElse(a.api_key, a.env_key))
    \/ a.start_date \notin {None, "2020-01-05"}
    \/ a.end_date \notin {None, "2020-01-05"}
    \/ NormalizeCollections(a.collections) = <<>>
    \/ NormalizeFormats(a.formats) = <<>>
    \/ a.page_size \notin 1..MAX_PAGE_SIZE

\* C15: a run whose API key is missing, one of whose supplied dates is not
\* YYYY-MM-DD, whose collection or format list is empty, or whose page size
\* is outside 1..1000 ends with an error, and no page, detail or asset
\* request is ever issued in it.
C15_ConfigErrorsFailFast ==
    (cpc # "idle" /\ ConfigError(args)) =>
        /\ cpc # "start" => (cpc = "exited" /\ exit_error # "")
        /\ requested = <<>> /\ enriched = <<>> /\ answers = <<>>

\* ========================================================================
\* Claims about the run summary, the log and the dispatch of downloads
\* ========================================================================
\* Number of discovered records whose enrichment succeeded.
EnrichedOk == Cardinality({ i \in 1..Len(packages) : ~EnrichmentFailed(i) })

\* C16: the count the run reports as processed when it is done is the
\* number of records whose enrichment succeeded.
C16_ReportedCountIsEnrichedCount ==
    (rpc = "done" /\ packages # <<>>) => reported = <<EnrichedOk>>

\* Log messages that tell of a skip.
SkipMessages ==
    {"no_formats", "summary_failed", "no_download_section", "unknown_format",
     "not_available"}

LoggedSkip(i, fmt) ==
    \E e \in DOMAIN log :
        /\ log[e].msg \in SkipMessages
        /\ log[e].idx = i
        /\ log[e].fmt = fmt

\* C17: every record the run has left without resolving a link (its detail
\* document absent or empty, or without download section) and every
\* (record, format) pair it has passed over (format unknown, or without
\* link in the document) has a log entry telling of that skip.
C17_NoSilentSkip ==
    /\ \A i \in 1..Len(enriched) :
          LET summary == FetchPackageSummary(summaries[i])
          IN  (\/ summary.kind \in {"none", "falsy"}
               \/ (summary.kind = "object" /\ summary.download.kind \in {"absent", "empty"}))
              => LoggedSkip(i, None)
    /\ \A i \in 1..Len(enriched) : \A k \in DOMAIN fmt_list :
          LET summary == FetchPackageSummary(summaries[i])
              fmt == fmt_list[k]
          IN  (/\ summary.kind = "object" /\ summary.download.kind = "links"
               /\ (i < idx \/ (i = idx /\ k < fi))
               /\ ~Resolves(summary, fmt))
              => LoggedSkip(i, fmt)

\* C18: no (record, format) destination is handed to download_with_retries
\* twice in a run.
C18_DispatchedAtMostOnce ==
    \A d, e \in DOMAIN dispatched : d # e => dispatched[d] # dispatched[e]

\* ========================================================================
\* Further claims about download_with_retries
\* ========================================================================
\* The request met a timeout, a connection error or a non-503 HTTP error.
IsAttemptFailure(a) == a.kind \in {"timeout", "connerror"} \/ IsPlainHttpError(a)

\* C19: when attempt n (counted from 1) fails with a non-503 HTTP error, a
\* timeout or a connection error, then for n <= max_retries the call sleeps
\* exactly 5 * n seconds and goes on to attempt n + 1, and for
\* n = max_retries + 1 it returns False without another sleep.
C19_LinearBackoff ==
    \A n \in DOMAIN answers :
        IsAttemptFailure(answers[n]) =>
            IF n <= max_retries
            THEN /\ Len(sleeps) >= n
                 /\ sleeps[n] = 5 * n
                 /\ (n = Len(answers) => dpc = "loop")
            ELSE /\ n = max_retries + 1
                 /\ Len(sleeps) = n - 1
                 /\ dpc = "returned" /\ result = "False"

\* C19 witness: max_retries = 2; a timeout, a 404 and a connection error:
\* sleeps of 5 and 10 seconds, none after the third attempt.
C19_Witness ==
    /\ max_retries = 2
    /\ Len(answers) = 3
    /\ answers[1].kind = "timeout"
    /\ IsPlainHttpError(answers[2]) /\ answers[2].status = 404
    /\ answers[3].kind = "connerror"
    /\ sleeps = <<5, 10>>
    /\ result = "False"

\* ========================================================================
\* Claims about next_offset_from_nextpage
\* ========================================================================
\* The URL carries a cursor in a query parameter named offsetMark.
EmbedsCursor(next_page) ==
    /\ next_page.form = "url"
    /\ \E i \in DOMAIN next_page.params :
          next_page.params[i].name = "offsetMark" /\ next_page.params[i].value # ""

\* The (decoded) value of the first such parameter.
EmbeddedCursor(next_page) ==
    LET i == CHOOSE i \in DOMAIN next_page.params :
                 /\ next_page.params[i].name = "offsetMark" /\ next_page.params[i].value # ""
                 /\ \A j \in 1..(i - 1) :
                       ~(next_page.params[j].name = "offsetMark" /\ next_page.params[j].value # "")
    IN  Unquote(next_page.params[i].value)

\* C20: of a URL that carries the cursor in an offsetMark query parameter
\* the function returns that parameter's value and never the URL; a raw
\* cursor it returns unchanged; of an absent or empty nextPage it returns
\* None, which the loop takes for the end of pagination.
C20_CursorExtraction ==
    npc = "returned" =>
        /\ EmbedsCursor(np_arg) =>
              (np_result = EmbeddedCursor(np_arg) /\ np_result # np_arg.text)
        /\ np_arg.form = "raw" => np_result = np_arg.text
        /\ np_arg.form \in {"none", "empty"} => (np_result = None /\ ~Truthy(np_result))

\* ========================================================================
\* Claims about the destination path
\* ========================================================================
\* The date parses in one of the formats package_year_from_date knows.
KnownFormat(d) ==
    d # NoDate /\ \E k \in 1..3 : Strptime(Prefix(d, 19), k) # 0

\* The date starts with four digits.
FourDigits(d) == d # NoDate /\ Len(d) >= 4 /\ IsDigit(Prefix(d, 4))

\* C21: the destination of a record whose id has a "-" is
\* <output_root>/<code>/<year>/<record_id>.<kind>, where code is the id's
\* text before its first "-" and year is the four-digit year of the issued
\* date (a date in a known format, else one starting with four digits), or
\* unknown_year when the date is missing or neither.
C21_DestinationLayout ==
    (pathCall.pc = "done" /\ Contains(pathCall.package_id, "-")) =>
        pathCall.dest =
            PathJoin(OutputRoot,
                     <<SubSeq(pathCall.package_id, 1, FirstIndex(pathCall.package_id, "-") - 1),
                       IF KnownFormat(pathCall.date_issued) \/ FourDigits(pathCall.date_issued)
                       THEN Prefix(pathCall.date_issued, 4) ELSE UnknownYear,
                       pathCall.package_id \o <<".">> \o pathCall.fmt>>)

\* ========================================================================
\* Claims about the extension installer
\* ========================================================================
\* C22: in a dry run sync_extensions executes no install command and the
\* state file keeps, at every moment, the content it had before the run.
C22_DryRunChangesNothing ==
    installer.dry_run => (installer.commands = <<>> /\ installer.state_file = installer.file0)

\* C23: when save_state(path, state) went through and load_state(path)
\* follows, load_state returns a dict equal to state; and load_state returns
\* the empty dict whenever the file is missing, is not valid JSON or holds a
\* JSON document that is not an object.
C23_StateRoundTrip ==
    installer.pc = "loaded" =>
        /\ installer.save_outcome = "ok" => installer.loaded = installer.state
        /\ (\/ ~installer.state_file.exists
            \/ ~IsJson(installer.state_file.text)
            \/ ~IsObjectText(installer.state_file.text)) => installer.loaded = EmptyState

\* test_state_roundtrip: {"ext-1": {"version": "1.0.0"}} saved and loaded.
C23_Witness ==
    /\ installer.pc = "loaded"
    /\ installer.save_outcome = "ok"
    /\ installer.state["ext-1"] = DictEntry("1.0.0")
    /\ Keys(installer.state) = {"ext-1"}
    /\ installer.loaded = installer.state

\* ========================================================================
\* Claims about the journal
\* ========================================================================
IsPrefixOf(a, b) == Len(a) <= Len(b) /\ SubSeq(b, 1, Len(a)) = a

\* The summary chunks of a journal, in file order.
SummariesIn(content) == SelectSeq(content, LAMBDA c : c.kind = "summary")

\* The summary chunks the calls for one session wrote, in call order.
SummariesLogged(session_id) ==
    LET cs == SelectSeq(journal.calls, LAMBDA c : c.session_id = session_id)
    IN [i \in 1..Len(cs) |-> Chunk("summary", <<cs[i].summary>>)]

LastCall == journal.calls[Len(journal.calls)]

JournalReturned ==
    journal.calls # <<>> =>
        /\ journal.path.dir = BaseDir
        /\ journal.path.name = <<"JOURNAL_", LastCall.session_id, ".md">>
        /\ JournalExists(journal.path)
        /\ \E i \in 1..Len(journal.files[journal.path]) :
              journal.files[journal.path][i] = Chunk("summary", <<LastCall.summary>>)

JournalKeepsOrder ==
    \A s \in Sessions :
        LET have == SummariesIn(journal.files[JournalPath(BaseDir, s)])
            want == SummariesLogged(s)
        IN /\ Len(want) <= Len(have)
           /\ SubSeq(have, Len(have) - Len(want) + 1, Len(have)) = want

JournalGrows ==
    \A p \in JournalPaths : IsPrefixOf(journal.files[p], journal'.files[p])

\* C24: log_journal_entry returns the path JOURNAL_<session_id>.md under
\* base_dir, the file exists there and holds the summary; each call leaves
\* what the file held as a prefix of what it holds afterwards; and a journal
\* holds the summaries of all calls for its session in call order.
C24_JournalAppendOnly ==
    /\ [](JournalReturned /\ JournalKeepsOrder)
    /\ [][JournalGrows]_vars

\* Two entries went to a journal that an earlier process had started.
C24_Witness ==
    /\ Len(journal.calls) >= 2
    /\ journal.calls[1].session_id = journal.calls[2].session_id
    /\ journal.calls[1].summary # journal.calls[2].summary
    /\ IsPrefixOf(EarlierJournal, journal.files[journal.path])
    /\ Len(SummariesIn(journal.files[journal.path])) >= 3

\* ========================================================================
\* Further claims about download_with_retries
\* ========================================================================
\* C25: download_with_retries writes straight into dest and never removes
\* or restores it: the file changes only by being opened (truncated) by an
\* attempt or by a chunk being appended, so whatever an attempt streamed
\* before it failed stays at dest when the call retries, returns or raises.
C25_PartialFileStays ==
    [][dest' # dest =>
          /\ dpc' = "streaming"
          /\ dest'.exists
          /\ (dest'.content = <<>> \/ dest'.content = Append(dest.content, "x"))]_vars

\* C25 witness: the call returned False and dest holds one chunk of a
\* two-chunk body: the file exists, the download did not succeed.
C25_Witness ==
    /\ dpc = "returned" /\ result = "False"
    /\ Len(answers) = 1
    /\ Is200(answers[1]) /\ answers[1].body = <<"x", "x">>
    /\ dest = [exists |-> TRUE, content |-> <<"x">>]

\* C27: every sleep of download_with_retries, after a 503 as after a failed
\* attempt, is followed by another request, so a finished call has made more
\* requests than it has slept; and when the last allowed attempt is answered
\* 503 the call does not wait before it returns False.
C27_NoSleepWithoutAttempt ==
    /\ dpc \in {"returned", "raised"} => Len(sleeps) < Len(answers)
    /\ (Len(answers) = max_retries + 1 /\ IsGood503(answers[Len(answers)])) =>
          Len(sleeps) = max_retries

\* ========================================================================
\* Claims about fetch_packages_for_collection
\* ========================================================================
\* C26: fetch_packages_for_collection never requests an offsetMark it has
\* requested before, and every call ends, whatever the server answers out of
\* a finite set of cursor values.
C26_IngestTerminates ==
    /\ [](ingest.pc = "loop" => ingest.offset \notin ingest.offsets_sent)
    /\ <>(ingest.pc \in {"returned", "raised"})

\* The state recorded before the run, and the state on disk.
RecordedBefore == LoadState(installer.file0)

SavedState == LoadState(installer.state_file)

TargetIds == {installer.target_extensions[i].id : i \in 1..Len(installer.target_extensions)}

SyncEnded == installer.pc \in {"done", "exit1"}

\* C28: when a sync_extensions run that is not a dry run ends, normally or
\* with exit status 1: every target was handled, a failed install did not
\* stop the later ones (the install command ran for exactly the targets that
\* needed it, in order), exit status 1 is raised exactly when an install
\* failed, and installed + skipped + failed is the number of targets; and
\* when save_state wrote the file, the saved state holds the state dict of
\* the run, it maps a target to its marketplace version exactly when that
\* version was recorded before the run or its install succeeded, a target
\* whose install failed keeps the entry it had, and so does every extension
\* outside the targets.
C28_StateTracksSuccessfulInstalls ==
    (SyncEnded /\ ~installer.dry_run) =>
        /\ Len(installer.outcomes) = Len(installer.target_extensions)
        /\ installer.installed_count + installer.skipped_count + installer.failed_count = Len(installer.target_extensions)
        /\ installer.commands = [i \in 1..Len(installer.commands) |->
                          SelectSeq(installer.target_extensions,
                                    LAMBDA e : ExtensionNeedsInstall(e, RecordedBefore))[i].id]
        /\ Len(installer.commands) = installer.installed_count + installer.failed_count
        /\ (installer.pc = "exit1") <=> (\E i \in 1..Len(installer.outcomes) : installer.outcomes[i] \in {"nonzero", "exception"})
        /\ installer.save_outcome # "none"
        /\ installer.save_outcome = "ok" =>
              /\ SavedState = installer.state
              /\ \A i \in 1..Len(installer.target_extensions) :
                    LET ext == installer.target_extensions[i] IN
                    /\ (SavedState[ext.id] = DictEntry(ext.version)) <=>
                          (\/ RecordedBefore[ext.id] = DictEntry(ext.version)
                           \/ installer.outcomes[i] = "installed")
                    /\ installer.outcomes[i] \in {"nonzero", "exception"} =>
                          SavedState[ext.id] = RecordedBefore[ext.id]
              /\ \A id \in ExtIds \ TargetIds : SavedState[id] = RecordedBefore[id]

\* C28 witness: ext-1 was recorded at 1.0.0 and is offered at 1.1.0, its
\* install fails; ext-2 is installed after it; the run ends with exit status
\* 1 and the saved state holds ext-1 at 1.0.0 and ext-2 at its new version.
C28_Witness ==
    /\ installer.pc = "exit1" /\ ~installer.dry_run /\ installer.save_outcome = "ok"
    /\ Len(installer.target_extensions) = 2
    /\ installer.target_extensions[1] = [id |-> "ext-1", version |-> "1.1.0"]
    /\ installer.target_extensions[2].id = "ext-2"
    /\ RecordedBefore["ext-1"] = DictEntry("1.0.0")
    /\ installer.outcomes = <<"nonzero", "installed">>
    /\ SavedState["ext-1"] = DictEntry("1.0.0")
    /\ SavedState["ext-2"] = DictEntry(installer.target_extensions[2].version)

\* C29: at every point of a save_state call, a write that fails or is cut
\* short part-way included, the state file holds the complete document it
\* held before the call or the complete new state; and save_state never
\* raises.
C29_AtomicSaveNeverRaises ==
    /\ installer.state_file \in {installer.file0, File(JsonDump(installer.state))}
    /\ installer.pc # "raised"

====
